---------------------------- MODULE Spec2Model ----------------------------
(***************************************************************************)
(* HomeOps image scripts: the procedural renderer create_cyberpunk_art.py, *)
(* the three Stable Diffusion scripts generate_cyberpunk_city*.py and the  *)
(* pipeline smoke test test-ai-generation.py, as one state machine.  Init  *)
(* picks the script that is run; every action is one step of that script.  *)
(***************************************************************************)
EXTENDS Integers, Sequences, FiniteSets

VARIABLES
    script,      \* the script being run
    pc,          \* control position inside it
    run,         \* invocation number of create_cyberpunk_city (1 or 2)
    i,           \* counter of the loop (or step list) being executed
    loc,         \* locals of the current loop iteration
    draw,        \* the call the last step made on the canvas; after a step that
                 \* made none, shape "none" and the stage of the most recent call
    fs,          \* what this run has written: path -> absent/partial/complete
    out,         \* lines printed so far
    failed,      \* steps that raised an exception
    ret,         \* return value of the script's function
    exitStatus,  \* process exit status, -1 while running
    firstRun     \* last glow centre drawn by the first invocation

vars == <<script, pc, run, i, loc, draw, fs, out, failed, ret, exitStatus, firstRun>>

\* How many values next to each end of a randint range the model draws.
EdgeSamples == 0

\* random.randint(a, b) returns any integer of a..b: the process-wide generator
\* is seeded from OS entropy, so the draw is nondeterministic.  The model draws
\* from the EdgeSamples + 1 values at each end of the range.
randint(a, b) == {x \in a..b : x <= a + EdgeSamples \/ x >= b - EdgeSamples}

width == 512
height == 512
building_count == 15
car_count == 8
sign_count == 6
rain_lines == 200
glow_count == 10

BasePath == "ai-output/cyberpunk-city.png"
EnhancedPath == "ai-output/cyberpunk-city-enhanced.png"

NoLocals == [stage |-> "none"]
\* After a step that makes no call on the canvas; s is the stage of the most
\* recent call.
NoCall(s) == [stage |-> s, shape |-> "none", xy |-> <<>>, fill |-> <<>>]
NoDraw == NoCall("none")
NoFiles ==
    [p \in {BasePath, EnhancedPath, "ai-demo-output/demo_script.txt"} |-> "absent"]

Scripts == {"art", "gen_gpu", "gen_cpu", "gen_pure", "test_ai"}

----------------------------------------------------------------------------
(* create_cyberpunk_art.py: the colours and boxes handed to drawing calls *)

\* int(60 * (1 - y / height)) + 20, 10, int(30 + 40 * (y / height)); height is
\* a power of two, so the float arithmetic is exact and int() is the floor.
GradientColor(y) ==
    <<((60 * (height - y)) \div height) + 20, 10, (30 * height + 40 * y) \div height>>

neon_colors ==
    {<<0, 255, 255>>, <<255, 0, 255>>, <<255, 255, 0>>,
     <<0, 255, 100>>, <<255, 100, 0>>, <<100, 100, 255>>}

car_colors == {<<255, 0, 255>>, <<0, 255, 255>>, <<255, 255, 0>>}

BuildingBox(bx, by, bw, bh) == <<bx, by, bx + bw, by + bh>>

window_rows(bh) == bh \div 20

window_cols_wide(bw) == (bw \div 15) + 1
window_cols(bw) == bw \div 15

WindowBox(bx, by, row, col) ==
    LET wx == bx + col * 15 + 5
        wy == by + row * 20 + 5
    IN  <<wx, wy, wx + 8, wy + 12>>

\* (trail_length, j) for which the double 255 * (1 - j / trail_length) * 0.5
\* lies just below the exact integer quotient, so int() gives one less.
TrailRoundsDown == {<<15, 13>>, <<17, 5>>, <<17, 11>>, <<30, 26>>}

\* int(c * alpha * 0.5) with alpha = 1 - (j / trail_length)
TrailChannel(c, j, trail_length) ==
    LET exact == (c * (trail_length - j)) \div (2 * trail_length)
    IN  IF c = 255 /\ <<trail_length, j>> \in TrailRoundsDown THEN exact - 1 ELSE exact

TrailColor(car_color, j, trail_length) ==
    [k \in 1..3 |-> TrailChannel(car_color[k], j, trail_length)]

SignBox(sx, sy) == <<sx, sy, sx + 60, sy + 20>>

GlowBoxInward(sx, sy, glow) == <<sx + glow, sy + glow, sx + 60 - glow, sy + 20 - glow>>
GlowBox(sx, sy, glow) == <<sx - glow, sy - glow, sx + 60 + glow, sy + 20 + glow>>

\* int(c * (0.8 - glow * 0.2)): 204, 153, 102 for c = 255 (the doubles
\* 0.8, 0.6000000000000001 and 0.4 times 255 truncate to these).
GlowColorBrighter(sign_color, glow) ==
    [k \in 1..3 |-> (sign_color[k] * (8 + 2 * glow)) \div 10]
GlowColor(sign_color, glow) ==
    [k \in 1..3 |-> (sign_color[k] * (8 - 2 * glow)) \div 10]

rain_color == <<100, 150, 200, 128>>

\* int(30 * (radius - r) / radius)
RingAlpha(radius, r) == (30 * (radius - r)) \div radius

\* The order of the drawing blocks in the function body.
StageOrderRainFirst == <<"gradient", "buildings", "cars", "rain", "signs", "glow", "post">>
StageOrder == <<"gradient", "buildings", "cars", "signs", "rain", "glow", "post">>

NextStage(s) ==
    LET k == CHOOSE n \in 1..Len(StageOrder) : StageOrder[n] = s
    IN  StageOrder[k + 1]

----------------------------------------------------------------------------
(* Exception handling: which handler, if any, encloses a step *)

\* "none": outside every try; "main": the try of create_cyberpunk_art's
\* __main__; "outer": the try of generate_cyberpunk_city; "inner": a nested
\* try whose except prints and lets the function continue.
HandlerSaveOutsideTry(s, step) ==
    CASE s = "art" -> "main"
      [] s = "test_ai" -> IF step = "ffmpeg" THEN "inner" ELSE "none"
      [] step \in {"makedirs", "save"} -> "none"
      [] s = "gen_gpu" /\ step = "xformers" -> "inner"
      [] s = "gen_pure" /\ step = "sequential_cpu_offload" -> "inner"
      [] OTHER -> "outer"
HandlerNoProbeExcept(s, step) ==
    CASE s = "art" -> "main"
      [] s = "test_ai" -> "none"
      [] step = "makedirs" -> "none"
      [] s = "gen_gpu" /\ step = "xformers" -> "inner"
      [] s = "gen_pure" /\ step = "sequential_cpu_offload" -> "inner"
      [] OTHER -> "outer"
Handler(s, step) ==
    CASE s = "art" -> "main"
      [] s = "test_ai" -> IF step = "ffmpeg" THEN "inner" ELSE "none"
      [] step = "makedirs" -> "none"
      [] s = "gen_gpu" /\ step = "xformers" -> "inner"
      [] s = "gen_pure" /\ step = "sequential_cpu_offload" -> "inner"
      [] OTHER -> "outer"

\* The step of create_cyberpunk_city that control position p executes.
ArtStep(p) ==
    CASE p = "start" -> "makedirs"
      [] p \in {"building_rect", "windows"} -> "buildings"
      [] p \in {"trail"} -> "cars"
      [] p \in {"sign_glow"} -> "signs"
      [] p \in {"glow_rings"} -> "glow"
      [] OTHER -> p

ArtBodyPcs ==
    {"start", "gradient", "buildings", "building_rect", "windows", "cars", "trail", "signs",
     "sign_glow", "rain", "glow", "glow_rings", "post", "save_base", "sharpen",
     "save_enhanced"}

\* A save that raises may already have created (and partly written) the file.
FailedWrite(path) == {fs, [fs EXCEPT ![path] = "partial"]}

----------------------------------------------------------------------------
(* create_cyberpunk_art.py: create_cyberpunk_city and __main__ *)

ArtStart ==
    /\ script = "art" /\ pc = "start"
    /\ out' = Append(out, "Creating cyberpunk city artwork...")
    /\ pc' = "gradient"
    /\ i' = 0
    /\ loc' = NoLocals
    /\ draw' = NoDraw
    /\ UNCHANGED <<script, run, fs, failed, ret, exitStatus, firstRun>>

GradientRow ==
    /\ script = "art" /\ pc = "gradient" /\ i < height
    /\ draw' = [stage |-> "gradient", shape |-> "line",
                xy |-> <<0, i, width, i>>, fill |-> GradientColor(i)]
    /\ IF i + 1 < height
       THEN pc' = pc /\ i' = i + 1
       ELSE pc' = NextStage("gradient") /\ i' = 0
    /\ UNCHANGED <<script, run, loc, fs, out, failed, ret, exitStatus, firstRun>>

\* bx, by, bw = random.randint(...); bh = height - by
BuildingDims(bx, by, bw) ==
    /\ script = "art" /\ pc = "buildings" /\ i < building_count
    /\ loc' = [stage |-> "buildings", bx |-> bx, by |-> by, bw |-> bw,
               bh |-> height - by, row |-> 0, col |-> 0]
    /\ draw' = NoCall(draw.stage)
    /\ pc' = "building_rect"
    /\ UNCHANGED <<script, run, i, fs, out, failed, ret, exitStatus, firstRun>>

\* base_color = (randint(10, 30), ...); draw.rectangle(...); then the window grid
BuildingRect(base_color) ==
    /\ script = "art" /\ pc = "building_rect"
    /\ draw' = [stage |-> "buildings", shape |-> "rectangle",
                xy |-> BuildingBox(loc.bx, loc.by, loc.bw, loc.bh), fill |-> base_color]
    /\ IF window_rows(loc.bh) > 0 /\ window_cols(loc.bw) > 0
       THEN pc' = "windows" /\ i' = i
       ELSE IF i + 1 < building_count
            THEN pc' = "buildings" /\ i' = i + 1
            ELSE pc' = NextStage("buildings") /\ i' = 0
    /\ UNCHANGED <<script, run, loc, fs, out, failed, ret, exitStatus, firstRun>>

\* One cell of the window grid: lit is random.random() > 0.3, and only a lit
\* window draws a colour with random.choice.
Window(lit, color) ==
    /\ script = "art" /\ pc = "windows"
    /\ draw' = IF lit
               THEN [stage |-> "windows", shape |-> "rectangle",
                     xy |-> WindowBox(loc.bx, loc.by, loc.row, loc.col),
                     fill |-> color]
               ELSE NoCall(draw.stage)
    /\ IF loc.col + 1 < window_cols(loc.bw)
       THEN loc' = [loc EXCEPT !.col = loc.col + 1] /\ pc' = pc /\ i' = i
       ELSE IF loc.row + 1 < window_rows(loc.bh)
            THEN /\ loc' = [loc EXCEPT !.row = loc.row + 1, !.col = 0]
                 /\ pc' = pc /\ i' = i
            ELSE /\ loc' = loc
                 /\ IF i + 1 < building_count
                    THEN pc' = "buildings" /\ i' = i + 1
                    ELSE pc' = NextStage("buildings") /\ i' = 0
    /\ UNCHANGED <<script, run, fs, out, failed, ret, exitStatus, firstRun>>

DrawCar(cx, cy, car_color, trail_length) ==
    /\ script = "art" /\ pc = "cars" /\ i < car_count
    /\ draw' = [stage |-> "cars", shape |-> "ellipse",
                xy |-> <<cx - 3, cy - 2, cx + 3, cy + 2>>, fill |-> car_color]
    /\ loc' = [stage |-> "cars", cx |-> cx, cy |-> cy, car_color |-> car_color,
               trail_length |-> trail_length, j |-> 0]
    /\ pc' = "trail"
    /\ UNCHANGED <<script, run, i, fs, out, failed, ret, exitStatus, firstRun>>

TrailStep ==
    /\ script = "art" /\ pc = "trail" /\ loc.j < loc.trail_length
    /\ draw' = [stage |-> "trail", shape |-> "ellipse",
                xy |-> <<loc.cx - loc.j - 1, loc.cy - 1, loc.cx - loc.j + 1, loc.cy + 1>>,
                fill |-> TrailColor(loc.car_color, loc.j, loc.trail_length)]
    /\ loc' = [loc EXCEPT !.j = loc.j + 1]
    /\ IF loc.j + 1 < loc.trail_length
       THEN pc' = pc /\ i' = i
       ELSE IF i + 1 < car_count
            THEN pc' = "cars" /\ i' = i + 1
            ELSE pc' = NextStage("cars") /\ i' = 0
    /\ UNCHANGED <<script, run, fs, out, failed, ret, exitStatus, firstRun>>

DrawSign(sx, sy, sign_color) ==
    /\ script = "art" /\ pc = "signs" /\ i < sign_count
    /\ draw' = [stage |-> "signs", shape |-> "rectangle_outline",
                xy |-> SignBox(sx, sy), fill |-> sign_color]
    /\ loc' = [stage |-> "signs", sx |-> sx, sy |-> sy, sign_color |-> sign_color,
               glow |-> 0]
    /\ pc' = "sign_glow"
    /\ UNCHANGED <<script, run, i, fs, out, failed, ret, exitStatus, firstRun>>

SignGlow ==
    /\ script = "art" /\ pc = "sign_glow" /\ loc.glow < 3
    /\ draw' = [stage |-> "sign_glow", shape |-> "rectangle_outline",
                xy |-> GlowBox(loc.sx, loc.sy, loc.glow),
                fill |-> GlowColor(loc.sign_color, loc.glow)]
    /\ loc' = [loc EXCEPT !.glow = loc.glow + 1]
    /\ IF loc.glow + 1 < 3
       THEN pc' = pc /\ i' = i
       ELSE IF i + 1 < sign_count
            THEN pc' = "signs" /\ i' = i + 1
            ELSE pc' = NextStage("signs") /\ i' = 0
    /\ UNCHANGED <<script, run, fs, out, failed, ret, exitStatus, firstRun>>

RainLine(rx, ry) ==
    /\ script = "art" /\ pc = "rain" /\ i < rain_lines
    /\ draw' = [stage |-> "rain", shape |-> "line",
                xy |-> <<rx, ry, rx - 2, ry + 15>>, fill |-> SubSeq(rain_color, 1, 3)]
    /\ loc' = [stage |-> "rain", rx |-> rx, ry |-> ry]
    /\ IF i + 1 < rain_lines
       THEN pc' = pc /\ i' = i + 1
       ELSE pc' = NextStage("rain") /\ i' = 0
    /\ UNCHANGED <<script, run, fs, out, failed, ret, exitStatus, firstRun>>

GlowCenter(gx, gy, radius) ==
    /\ script = "art" /\ pc = "glow" /\ i < glow_count
    /\ loc' = [stage |-> "glow", gx |-> gx, gy |-> gy, radius |-> radius, r |-> radius]
    /\ draw' = NoCall(draw.stage)
    /\ pc' = "glow_rings"
    /\ UNCHANGED <<script, run, i, fs, out, failed, ret, exitStatus, firstRun>>

\* for r in range(radius, 0, -5), drawn on the RGBA glow layer
GlowRing ==
    /\ script = "art" /\ pc = "glow_rings" /\ loc.r > 0
    /\ draw' = [stage |-> "glow", shape |-> "ellipse",
                xy |-> <<loc.gx - loc.r, loc.gy - loc.r, loc.gx + loc.r, loc.gy + loc.r>>,
                fill |-> <<255, 100, 255, RingAlpha(loc.radius, loc.r)>>]
    /\ loc' = [loc EXCEPT !.r = loc.r - 5]
    /\ IF loc.r - 5 > 0
       THEN pc' = pc /\ i' = i
       ELSE IF i + 1 < glow_count
            THEN pc' = "glow" /\ i' = i + 1
            ELSE pc' = NextStage("glow") /\ i' = 0
    /\ UNCHANGED <<script, run, fs, out, failed, ret, exitStatus, firstRun>>

\* Image.alpha_composite(...).convert('RGB'), then GaussianBlur(radius=0.5)
PostProcess ==
    /\ script = "art" /\ pc = "post"
    /\ draw' = [stage |-> "post", shape |-> "alpha_composite+GaussianBlur",
                xy |-> <<0, 0, width, height>>, fill |-> <<>>]
    /\ pc' = "save_base"
    /\ UNCHANGED <<script, run, i, loc, fs, out, failed, ret, exitStatus, firstRun>>

SaveBase ==
    /\ script = "art" /\ pc = "save_base"
    /\ fs' = [fs EXCEPT ![BasePath] = "complete"]
    /\ out' = Append(out, "Cyberpunk city artwork saved to: ai-output/cyberpunk-city.png")
    /\ draw' = NoCall(draw.stage)
    /\ pc' = "sharpen"
    /\ UNCHANGED <<script, run, i, loc, failed, ret, exitStatus, firstRun>>

\* img.copy().filter(UnsharpMask(...)) works on a copy: img is not drawn on.
Sharpen ==
    /\ script = "art" /\ pc = "sharpen"
    /\ draw' = NoCall(draw.stage)
    /\ pc' = "save_enhanced"
    /\ UNCHANGED <<script, run, i, loc, fs, out, failed, ret, exitStatus, firstRun>>

SaveEnhanced ==
    /\ script = "art" /\ pc = "save_enhanced"
    /\ fs' = [fs EXCEPT ![EnhancedPath] = "complete"]
    /\ out' = Append(out, "Enhanced version saved to: ai-output/cyberpunk-city-enhanced.png")
    /\ ret' = <<BasePath, EnhancedPath>>
    /\ draw' = NoCall(draw.stage)
    /\ pc' = "main_ok"
    /\ UNCHANGED <<script, run, i, loc, failed, exitStatus, firstRun>>

\* Any statement of the function body raises: the frame (canvas, locals) is
\* dropped and control reaches the except clause of __main__.  The first
\* statement that can raise is os.makedirs, after the opening print.
ArtRaise ==
    /\ script = "art" /\ pc \in ArtBodyPcs
    /\ Handler(script, ArtStep(pc)) = "main"
    /\ failed' = failed \cup {ArtStep(pc)}
    /\ fs' \in (CASE pc = "save_base" -> FailedWrite(BasePath)
                  [] pc = "save_enhanced" -> FailedWrite(EnhancedPath)
                  [] OTHER -> {fs})
    /\ out' = IF pc = "start" THEN Append(out, "Creating cyberpunk city artwork...")
                              ELSE out
    /\ pc' = "except"
    /\ i' = 0
    /\ loc' = NoLocals
    /\ draw' = NoDraw
    /\ UNCHANGED <<script, run, ret, exitStatus, firstRun>>

\* The except clause prints the error and the traceback; the script then ends
\* by falling off the end of the module.
MainExcept ==
    /\ script = "art" /\ pc = "except"
    /\ out' = out \o <<"Error creating artwork: <e>", "<traceback>">>
    /\ pc' = "exit"
    /\ exitStatus' = 0
    /\ UNCHANGED <<script, run, i, loc, draw, fs, failed, ret, firstRun>>

MainSuccess ==
    /\ script = "art" /\ pc = "main_ok"
    /\ out' = out \o <<"Success! Cyberpunk city artwork created.", "Generated files:",
                       "  - ai-output/cyberpunk-city.png",
                       "  - ai-output/cyberpunk-city-enhanced.png">>
    /\ pc' = "exit"
    /\ exitStatus' = 0
    /\ UNCHANGED <<script, run, i, loc, draw, fs, failed, ret, firstRun>>

\* A caller that imports the module calls create_cyberpunk_city() again with
\* the same (empty) argument list, in the same process.
SecondInvocation ==
    /\ script = "art" /\ pc = "main_ok" /\ run = 1
    /\ firstRun' = loc
    /\ run' = 2
    /\ pc' = "start"
    /\ ret' = "unset"
    /\ UNCHANGED <<script, i, loc, draw, fs, out, failed, exitStatus>>

ArtNext ==
    \/ ArtStart
    \/ GradientRow
    \/ \E bx \in randint(0, width - 80), by \in randint(height \div 3, height - 50),
          bw \in randint(30, 80) : BuildingDims(bx, by, bw)
    \/ \E c1 \in randint(10, 30), c2 \in randint(10, 30), c3 \in randint(10, 30) :
          BuildingRect(<<c1, c2, c3>>)
    \/ \E lit \in BOOLEAN :
          \E color \in (IF lit THEN neon_colors ELSE {<<>>}) : Window(lit, color)
    \/ \E cx \in randint(0, width), cy \in randint(height \div 4, height \div 2),
          car_color \in car_colors, trail_length \in randint(15, 30) :
          DrawCar(cx, cy, car_color, trail_length)
    \/ TrailStep
    \/ \E sx \in randint(50, width - 100), sy \in randint(height \div 3, height \div 2),
          sign_color \in car_colors : DrawSign(sx, sy, sign_color)
    \/ SignGlow
    \/ \E rx \in randint(0, width), ry \in randint(0, height - 50) : RainLine(rx, ry)
    \/ \E gx \in randint(0, width), gy \in randint(0, height \div 2),
          radius \in randint(30, 80) : GlowCenter(gx, gy, radius)
    \/ GlowRing
    \/ PostProcess
    \/ SaveBase
    \/ Sharpen
    \/ SaveEnhanced
    \/ ArtRaise
    \/ MainExcept
    \/ MainSuccess

----------------------------------------------------------------------------
(* generate_cyberpunk_city*.py and test-ai-generation.py: a list of external *)
(* steps, each of which returns or raises                                     *)

DemoScriptPath == "ai-demo-output/demo_script.txt"

Steps(s) ==
    CASE s = "gen_gpu" ->
           <<"makedirs", "from_pretrained", "scheduler", "to_device", "xformers",
             "generate", "save">>
      [] s = "gen_cpu" ->
           <<"makedirs", "from_pretrained", "scheduler", "to_device",
             "attention_slicing", "sequential_cpu_offload", "generate", "save">>
      [] s = "gen_pure" ->
           <<"makedirs", "cuda_is_available", "cuda_device_count", "from_pretrained",
             "scheduler", "to_device", "attention_slicing", "sequential_cpu_offload",
             "generate", "save">>
      [] s = "test_ai" -> <<"makedirs", "write_script", "ffmpeg">>

Rule == "============================================================"

\* What the script prints before its first step.
EnterSays(s) ==
    CASE s = "gen_gpu" -> <<"Loading Stable Diffusion model...">>
      [] s = "gen_cpu" -> <<"Loading Stable Diffusion model (CPU mode)...">>
      [] s = "gen_pure" -> <<"Loading Stable Diffusion model (Pure CPU mode)...",
                            "CUDA disabled via environment variables">>
      [] s = "test_ai" -> <<Rule, "AI GENERATION SYSTEM - COMPLETE PIPELINE TEST", Rule, "">>

\* What is printed between the previous step and the call of this one.
SaysBefore(s, step, cuda) ==
    CASE s = "gen_gpu" /\ step = "to_device" ->
           IF cuda THEN <<"Using GPU acceleration">>
                   ELSE <<"Using CPU (this will be slower)">>
      [] s = "gen_gpu" /\ step = "generate" -> <<"Generating image: <prompt>">>
      [] s = "gen_cpu" /\ step = "from_pretrained" ->
           <<"Using CPU mode (will be slower but more compatible)">>
      [] s = "gen_cpu" /\ step = "generate" ->
           <<"Generating image: <prompt>", "This may take several minutes on CPU...">>
      [] s = "gen_pure" /\ step = "generate" ->
           <<"Generating image: <prompt>", "This may take 5-15 minutes on CPU...">>
      [] s = "test_ai" /\ step = "write_script" -> <<"[1/5] Creating test script...">>
      [] s = "test_ai" /\ step = "ffmpeg" ->
           <<"[OK] Script created: ai-demo-output/demo_script.txt",
             "\n[2/5] Testing Stable Diffusion...",
             "Ready to generate: 'futuristic AI laboratory, high tech, blue lighting, 8k'",
             "[OK] Stable Diffusion is configured",
             "\n[3/5] Testing ElevenLabs...",
             "Ready to synthesize: 'Welcome to your AI generation system'",
             "[OK] ElevenLabs is configured",
             "\n[4/5] Testing Stable Video Diffusion...",
             "Ready to animate images into video",
             "[OK] Stable Video Diffusion is configured",
             "\n[5/5] Testing FFmpeg...">>
      [] OTHER -> <<>>

\* What is printed when the step has returned (returncode: the probe's).
SaysAfter(s, step, returncode) ==
    CASE s = "gen_gpu" /\ step = "xformers" ->
           <<"Using xformers memory efficient attention">>
      [] s = "gen_gpu" /\ step = "save" ->
           <<"Image saved to: ai-output/cyberpunk-city.png">>
      [] s = "gen_cpu" /\ step = "save" ->
           <<"Image saved to: ai-output/cyberpunk-city.png">>
      [] s = "gen_pure" /\ step = "cuda_is_available" -> <<"CUDA available: <bool>">>
      [] s = "gen_pure" /\ step = "cuda_device_count" -> <<"Device count: <n>">>
      [] s = "gen_pure" /\ step = "save" ->
           <<"Image saved to: ai-output/cyberpunk-city.png",
             "Success! Cyberpunk city image generated.">>
      [] s = "test_ai" /\ step = "ffmpeg" ->
           IF returncode = 0 THEN <<"[OK] FFmpeg is installed and working">>
                             ELSE <<"[ERROR] FFmpeg error">>
      [] OTHER -> <<>>

\* What the except clause that catches a failure of the step prints.
SaysExcept(s, step) ==
    CASE Handler(s, step) = "inner" /\ s = "gen_gpu" ->
           <<"Xformers not available, using standard attention">>
      [] Handler(s, step) = "inner" /\ s = "gen_pure" ->
           <<"Sequential CPU offload not available, continuing...">>
      [] Handler(s, step) = "inner" /\ s = "test_ai" -> <<"[ERROR] FFmpeg not found">>
      [] Handler(s, step) = "outer" /\ s = "gen_gpu" ->
           <<"Error generating image: <e>",
             "This might be due to missing dependencies or insufficient memory">>
      [] Handler(s, step) = "outer" -> <<"Error generating image: <e>", "<traceback>">>
      [] OTHER -> <<>>

\* The file a step writes, if any.
Writes(s, step) ==
    CASE step = "save" -> {BasePath}
      [] step = "write_script" -> {DemoScriptPath}
      [] OTHER -> {}

\* Where control goes when the step list is finished.
AfterSteps(s) == IF s = "test_ai" THEN "summary" ELSE "returned"

Summary ==
    <<"\n" \o Rule, "SYSTEM STATUS SUMMARY", Rule, "",
      "[OK] Stable Diffusion:      READY (Image Generation)",
      "[OK] Stable Video Diffusion: READY (Video Generation)",
      "[OK] ElevenLabs:            READY (Voice Synthesis)",
      "[OK] FFmpeg:                READY (Video Assembly)",
      "[OK] Video Agents:          READY (5 agents configured)",
      "",
      "[SUCCESS] SYSTEM FULLY OPERATIONAL!",
      "",
      "Available Commands:",
      "  /visual --sd 'your prompt'      # Generate image",
      "  /visual --svd image.png         # Generate video",
      "  /voice 'text to speak'          # Generate voice",
      "  /video 'create demo video'      # Full pipeline",
      "",
      "Next Steps:",
      "1. Generate your first image: /visual --sd 'fantasy dragon'",
      "2. Download models from https://civitai.com",
      "3. Start WebUI: C:\\Projects\\scripts\\launch-sd.bat",
      "",
      "Test complete! Output in: <abspath>">>

\* What __main__ prints once generate_cyberpunk_city has returned r.
MainSays(s, r) ==
    CASE s = "gen_cpu" -> IF r # "None"
                          THEN <<"Success! Cyberpunk city image generated.">>
                          ELSE <<"Failed to generate image.">>
      [] s = "gen_pure" -> IF r # "None" THEN <<>> ELSE <<"Failed to generate image.">>
      [] OTHER -> <<>>

Enter(cuda) ==
    /\ script # "art" /\ pc = "start"
    /\ out' = out \o EnterSays(script)
    /\ loc' = [stage |-> "steps", cuda |-> cuda, returncode |-> -1]
    /\ pc' = "steps"
    /\ i' = 1
    /\ UNCHANGED <<script, run, draw, fs, failed, ret, exitStatus, firstRun>>

StepOk(returncode) ==
    /\ script # "art" /\ pc = "steps"
    /\ LET step == Steps(script)[i]
       IN  /\ out' = out \o SaysBefore(script, step, loc.cuda)
                         \o SaysAfter(script, step, returncode)
           /\ fs' = [p \in DOMAIN fs |->
                        IF p \in Writes(script, step) THEN "complete" ELSE fs[p]]
           /\ loc' = [loc EXCEPT !.returncode = IF step = "ffmpeg" THEN returncode ELSE @]
           /\ ret' = IF step = "save" THEN BasePath ELSE ret
    /\ IF i < Len(Steps(script))
       THEN pc' = pc /\ i' = i + 1
       ELSE pc' = AfterSteps(script) /\ i' = 0
    /\ UNCHANGED <<script, run, draw, failed, exitStatus, firstRun>>

StepRaises ==
    /\ script # "art" /\ pc = "steps"
    /\ LET step == Steps(script)[i]
           h == Handler(script, step)
       IN  /\ out' = out \o SaysBefore(script, step, loc.cuda) \o SaysExcept(script, step)
           /\ failed' = failed \cup {step}
           /\ fs' \in {fs, [p \in DOMAIN fs |->
                               IF p \in Writes(script, step) THEN "partial" ELSE fs[p]]}
           /\ ret' = IF h = "outer" THEN "None" ELSE ret
           /\ CASE h = "none" -> pc' = "propagated" /\ i' = 0
                [] h = "outer" -> pc' = "returned" /\ i' = 0
                [] h = "inner" ->
                     IF i < Len(Steps(script))
                     THEN pc' = pc /\ i' = i + 1
                     ELSE pc' = AfterSteps(script) /\ i' = 0
    /\ UNCHANGED <<script, run, loc, draw, exitStatus, firstRun>>

\* __main__ of the generate scripts, after the function has returned.
GenMain ==
    /\ script \in {"gen_gpu", "gen_cpu", "gen_pure"} /\ pc = "returned"
    /\ out' = out \o MainSays(script, ret)
    /\ pc' = "exit"
    /\ exitStatus' = 0
    /\ UNCHANGED <<script, run, i, loc, draw, fs, failed, ret, firstRun>>

TestSummary ==
    /\ script = "test_ai" /\ pc = "summary"
    /\ out' = out \o Summary
    /\ pc' = "exit"
    /\ exitStatus' = 0
    /\ UNCHANGED <<script, run, i, loc, draw, fs, failed, ret, firstRun>>

\* An exception no handler encloses ends the interpreter with status 1.
Uncaught ==
    /\ pc = "propagated"
    /\ pc' = "exit"
    /\ exitStatus' = 1
    /\ UNCHANGED <<script, run, i, loc, draw, fs, out, failed, ret, firstRun>>

StepsNext ==
    \/ \E cuda \in (IF script = "gen_gpu" THEN BOOLEAN ELSE {FALSE}) : Enter(cuda)
    \/ \E returncode \in (IF script = "test_ai" /\ pc = "steps" /\ i = 3
                          THEN {0, 1} ELSE {0}) : StepOk(returncode)
    \/ StepRaises
    \/ GenMain
    \/ TestSummary
    \/ Uncaught

Init ==
    /\ script \in Scripts
    /\ pc = "start"
    /\ run = 1
    /\ i = 0
    /\ loc = NoLocals
    /\ draw = NoDraw
    /\ fs = NoFiles
    /\ out = <<>>
    /\ failed = {}
    /\ ret = "unset"
    /\ exitStatus = -1
    /\ firstRun = NoLocals

Next == ArtNext \/ StepsNext

Spec == Init /\ [][Next]_vars

InitTwoRuns == Init /\ script = "art"

NextTwoRuns == ArtNext \/ SecondInvocation

SpecTwoRuns == InitTwoRuns /\ [][NextTwoRuns]_vars

----------------------------------------------------------------------------
(* Properties *)

IsCall == draw.shape # "none"
Lines == {out[k] : k \in DOMAIN out}
GenScripts == {"gen_gpu", "gen_cpu", "gen_pure"}

\* C1: every colour handed to a drawing call (gradient rows, building base
\* colours, window palette entries, trail colours, sign colours and glow rings,
\* the rain colour, the RGBA of every ring of the glow overlay) has every
\* channel, alpha included, within 0..255.
C1_ColourInRange ==
    IsCall => \A k \in DOMAIN draw.fill : draw.fill[k] >= 0 /\ draw.fill[k] <= 255

\* The innermost ring of a glow of radius 80: alpha int(30 * 75 / 80) = 28.
C1_Witness ==
    /\ draw.stage = "glow" /\ IsCall
    /\ loc.radius = 80
    /\ draw.fill = <<255, 100, 255, 28>>

\* C2: all four coordinates of a building rectangle lie on the canvas pixel
\* grid: x in 0..width-1 and y in 0..height-1.
C2_BuildingOnPixelGrid ==
    (draw.stage = "buildings" /\ IsCall) =>
        /\ draw.xy[1] \in 0..(width - 1) /\ draw.xy[3] \in 0..(width - 1)
        /\ draw.xy[2] \in 0..(height - 1) /\ draw.xy[4] \in 0..(height - 1)

\* C3: a window rectangle is the cell rectangle of some row in 0..bh//20-1 and
\* col in 0..bw//15-1 of its building, and lies inside the building's
\* rectangle: bx <= wx, wx+8 <= bx+bw, by <= wy, wy+12 <= by+bh.
C3_WindowInsideBuilding ==
    (draw.stage = "windows" /\ IsCall) =>
        /\ \E row \in 0..((loc.bh \div 20) - 1), col \in 0..((loc.bw \div 15) - 1) :
              draw.xy = <<loc.bx + col * 15 + 5, loc.by + row * 20 + 5,
                          loc.bx + col * 15 + 13, loc.by + row * 20 + 17>>
        /\ loc.bx <= draw.xy[1] /\ draw.xy[3] <= loc.bx + loc.bw
        /\ loc.by <= draw.xy[2] /\ draw.xy[4] <= loc.by + loc.bh

\* A window of the last column of a building 30 wide: its right edge is 2
\* short of the building's.
C3_Witness ==
    /\ draw.stage = "windows" /\ IsCall
    /\ loc.bw = 30
    /\ draw.xy[3] = loc.bx + loc.bw - 2

\* C4: two invocations with identical parameters make the same random choices:
\* when the second invocation has returned, the glow centre it drew last (gx,
\* gy, radius) is the one the first invocation drew last.
C4_SameChoices ==
    (script = "art" /\ run = 2 /\ pc = "main_ok") => loc = firstRun

\* C5: a run of create_cyberpunk_art that failed at some step has printed the
\* error message and the trace, and has written neither output file.
C5_NoFilesOnFailure ==
    (script = "art" /\ pc = "exit" /\ failed # {}) =>
        /\ "Error creating artwork: <e>" \in Lines
        /\ "<traceback>" \in Lines
        /\ fs[BasePath] # "complete"
        /\ fs[EnhancedPath] # "complete"

\* C6: a run of create_cyberpunk_art in which create_cyberpunk_city raised
\* prints a failure summary and ends with a non-zero exit status; a run ends
\* with exit status 0 only if both output files were written.
C6_ExitStatus ==
    (script = "art" /\ pc = "exit") =>
        /\ failed # {} => ("Error creating artwork: <e>" \in Lines /\ exitStatus # 0)
        /\ exitStatus = 0 => (fs[BasePath] = "complete" /\ fs[EnhancedPath] = "complete")

\* C7 as claimed: in the model-backed scripts every failure of an external
\* step, directory creation and optimisation toggles included, is caught,
\* reported and turned into the return value None; no exception propagates,
\* and the path is returned only when the image was saved.
C7_EveryFailureCaught ==
    script \in GenScripts =>
        /\ pc # "propagated"
        /\ (pc \in {"returned", "exit"} /\ failed # {}) =>
              (ret = "None" /\ "Error generating image: <e>" \in Lines)
        /\ ret = BasePath => fs[BasePath] = "complete"

\* C7 as amended: a failure of output directory creation, which precedes the
\* try block, propagates out of generate_cyberpunk_city, and nothing else does;
\* a failure of an optional toggle (xformers in generate_cyberpunk_city.py,
\* sequential CPU offload in generate_cyberpunk_city_pure_cpu.py) is reported
\* and generation continues; a failure of any other step is reported and
\* turned into the return value None; the path is returned only when the image
\* was saved.
C7_FailuresInsideTryCaught ==
    script \in GenScripts =>
        LET optional == CASE script = "gen_gpu" -> {"xformers"}
                          [] script = "gen_pure" -> {"sequential_cpu_offload"}
                          [] OTHER -> {}
            report == CASE script = "gen_gpu" ->
                             "Xformers not available, using standard attention"
                        [] OTHER -> "Sequential CPU offload not available, continuing..."
        IN  /\ pc = "propagated" => failed = {"makedirs"}
            /\ "makedirs" \in failed => (pc \in {"propagated", "exit"} /\ ret = "unset")
            /\ (failed \cap optional) # {} => report \in Lines
            /\ (pc = "returned" /\ (failed \ optional) # {}) =>
                  (ret = "None" /\ "Error generating image: <e>" \in Lines)
            /\ (pc = "returned" /\ failed \subseteq optional) => ret = BasePath
            /\ ret = BasePath => fs[BasePath] = "complete"

\* The optional toggle and then the save failed: both are reported, None is
\* returned.
C7_Witness ==
    /\ script = "gen_pure" /\ pc = "returned"
    /\ failed = {"sequential_cpu_offload", "save"}
    /\ ret = "None"

ClaimedRank(stage) ==
    CASE stage = "none" -> 0
      [] stage = "gradient" -> 1
      [] stage = "buildings" -> 2
      [] stage = "windows" -> 3
      [] stage \in {"cars", "trail"} -> 4
      [] stage \in {"signs", "sign_glow"} -> 5
      [] stage = "rain" -> 6
      [] stage = "glow" -> 7
      [] stage = "post" -> 8

\* C8 as claimed: the stages gradient, buildings, windows, cars, signs, rain,
\* glow, post-process each complete before the next starts: no call of an
\* earlier stage follows a call of a later stage.
C8_StagesInOrder ==
    [][draw'.shape # "none" => ClaimedRank(draw'.stage) >= ClaimedRank(draw.stage)]_vars

AmendedRank(stage) == IF stage = "windows" THEN 2 ELSE ClaimedRank(stage)

\* C8 as amended: buildings and windows are one stage, in which each building's
\* rectangle is followed by that building's windows before the next building's
\* rectangle; with that, the stages gradient, buildings with windows, cars,
\* signs, rain, glow, post-process each complete before the next starts, and a
\* window is only ever drawn right after a building rectangle or a window.
C8_StagesInOrderPerBuilding ==
    [][draw'.shape # "none" =>
          /\ AmendedRank(draw'.stage) >= AmendedRank(draw.stage)
          /\ draw'.stage = "windows" => draw.stage \in {"buildings", "windows"}]_vars

\* The rectangle of a later building is about to be drawn and the most recent
\* call on the canvas was a window of the building before it.
C8_Witness ==
    /\ script = "art" /\ pc = "building_rect" /\ i > 0
    /\ draw.stage = "windows"

ProbeLines ==
    {"[OK] FFmpeg is installed and working", "[ERROR] FFmpeg error",
     "[ERROR] FFmpeg not found"}

\* C10: whatever the FFmpeg probe does (exit status 0, another exit status,
\* an exception), test-ai-generation.py prints exactly one probe result line,
\* the one of that outcome, does not terminate because of the probe, and then
\* prints the same summary block, with "[OK] FFmpeg: READY" and "[SUCCESS]
\* SYSTEM FULLY OPERATIONAL!" in it, and ends with status 0.
C10_ProbeThenSummary ==
    script = "test_ai" =>
        /\ "ffmpeg" \in failed => pc \in {"summary", "exit"}
        /\ (pc \in {"summary", "exit"} /\ failed \subseteq {"ffmpeg"}) =>
              LET probe == {k \in DOMAIN out : out[k] \in ProbeLines}
                  said == CASE "ffmpeg" \in failed -> "[ERROR] FFmpeg not found"
                            [] loc.returncode = 0 -> "[OK] FFmpeg is installed and working"
                            [] OTHER -> "[ERROR] FFmpeg error"
              IN  /\ Cardinality(probe) = 1
                  /\ \A k \in probe : out[k] = said
                  /\ pc = "exit" =>
                        /\ exitStatus = 0
                        /\ \A k \in probe :
                              /\ Len(out) = k + 24
                              /\ out[k + 2] = "SYSTEM STATUS SUMMARY"
                              /\ out[k + 8] = "[OK] FFmpeg:                READY (Video Assembly)"
                              /\ out[k + 11] = "[SUCCESS] SYSTEM FULLY OPERATIONAL!"
                              /\ out[k + 24] = "Test complete! Output in: <abspath>"

\* The probe raised and the script still ran to its end.
C10_Witness ==
    /\ script = "test_ai" /\ pc = "exit"
    /\ "ffmpeg" \in failed
    /\ exitStatus = 0

=============================================================================
